---- MODULE Spec2Model ----
(***************************************************************************)
(* SolarSynkV3: the run orchestrator of main.py and the token acquisition  *)
(* of gettoken.py, as a state machine.                                     *)
(*                                                                         *)
(* One run of main() is: gettoken (public key, encrypt, login), then for   *)
(* every inverter serial process_inverter: clean cache, connection test,   *)
(* execute_api_calls (one thread per registered call, then join) and       *)
(* execute_settings_management (download, forward staged setting, reset).  *)
(* The modules getapi, postapi and settingsmanager are not part of the     *)
(* available sources; their functions are modelled from the written        *)
(* specification as calls that return normally (with success or with a     *)
(* logged failure) or raise.                                               *)
(***************************************************************************)
EXTENDS Integers, Sequences, FiniteSets, TLC

(* ---------------- bounds ---------------- *)
\* number of inverter serials in json_settings['sunsynk_serial']
NumDevices == 2
\* number of invocations of main() by the external scheduler
MaxRuns == 2
\* number of values the user enters into staging entities
MaxWrites == 1
\* number of entries of the api_calls registry that are modelled (the
\* registry of main.py has eight; the loops are uniform in its length)
NumApiCalls == 2
\* longest serial list handed to validate_and_create_required_entities
MaxListLen == 2

(* ---------------- data ---------------- *)
\* main.py:28 the serials, in list order
inverter_serials == [i \in 1..NumDevices |-> i]

Serials == {inverter_serials[i] : i \in 1..NumDevices}

\* main.py:140-149 the registry of telemetry operations (by position)
api_calls == 1..NumApiCalls

\* blank value of a staging entity
Empty == 0

\* values the user may write: every write is a distinct value
WriteIds == 1..MaxWrites

\* tokens the login endpoint may hand out
Tokens == {"tokA"}

\* outcomes of the GET of the public key and of parsing it (gettoken.py:63-85)
KeyOutcomes == {"ok", "timeout", "connection_error", "http_status", "malformed"}

\* outcomes of public_key.encrypt (gettoken.py:99-102)
EncryptOutcomes == {"ok", "encrypt_error"}

\* outcomes of load_settings() at the start of gettoken (gettoken.py:24,
\* utils.py:34-41): the settings, or SystemExit
LoadOutcomes == {"ok", "exit"}

\* outcomes of _authenticate (gettoken.py:127-153): a KeyError while the
\* url and the payload are built from the configuration, the transport
\* outcome of the login POST, and for a parsed body its msg field and
\* data.access_token
LoginResponses ==
    {[status |-> s, msg |-> "none", token |-> "none"] :
        s \in {"config_error", "timeout", "connection_error", "http_status",
               "bad_json"}}
    \cup
    {[status |-> "ok", msg |-> m, token |-> t] :
        m \in {"Success", "Invalid credentials", "missing"},
        t \in Tokens \cup {"", "missing"}}

\* return values of postapi.ConnectionTest, and "raise" for an exception
ConnectionOutcomes == {"Connection Success", "Connection Failed", "raise"}

\* outcomes of one telemetry operation getapi.Get*: it returns, raises an
\* Exception, raises an Exception whose str() raises, or raises a
\* BaseException that is not an Exception (the SystemExit of
\* utils.load_settings, utils.py:41)
FetchOutcomes == {"ok", "raise", "raise_unprintable", "exit"}

\* main.py:100 json_settings['Refresh_rate']: the key is there, or KeyError
RefreshRateOutcomes == {"ok", "key_error"}

\* outcomes of os.remove(settings_file): done, or an OSError
RemoveOutcomes == {"ok", "raise"}

\* outcomes of settingsmanager.DownloadProviderSettings
DownloadOutcomes == {"ok", "fail", "raise"}

\* outcomes of settingsmanager.GetNewSettingsFromHAEntity
ForwardOutcomes == {"ok", "read_fail", "read_raise", "update_fail", "update_raise"}

\* outcomes of settingsmanager.ResetSettingsEntity
ResetOutcomes == {"ok", "raise"}

VARIABLES
    run,               \* number of the current invocation of main()
    pc,                \* position of the main thread
    bearer_token,      \* main.py:68 local of main()
    authLog,           \* requests and steps of gettoken in this run, in order
    authEnd,           \* how gettoken ended in this run
    idx,               \* position of the for loop of main.py:82
    settings_file,     \* does settings.json exist
    connOf,            \* per serial: what ConnectionTest returned in this run
    thr,               \* per api call: state of its thread
    ti,                \* loop index of the start loop / the join loop
    execCount,         \* per api call: times api_function ran in this call
    fetchOutcome,      \* per api call: how api_function ended in this call
    errorLog,          \* api calls whose exception fetch_data logged
    apiReturn,         \* has execute_api_calls returned, and with what results
    stepsRun,          \* <<step, serial, token, api call>> invoked in this run
    raised,            \* step whose exception reached the main thread
    staged,            \* per serial: value of the staging entity
    nextWrite,         \* next value the user will write
    sentIn,            \* per written value: runs that forwarded it
    cyc,               \* record of the current settings cycle
    em                 \* entity_manager.py: the call of
                       \* validate_and_create_required_entities

vars == <<run, pc, bearer_token, authLog, authEnd, idx, settings_file, connOf,
          thr, ti, execCount, fetchOutcome, errorLog, apiReturn, stepsRun,
          raised, staged, nextWrite, sentIn, cyc, em>>

\* the variables of main.py and gettoken.py
mainVars == <<run, pc, bearer_token, authLog, authEnd, idx, settings_file,
              connOf, thr, ti, execCount, fetchOutcome, errorLog, apiReturn,
              stepsRun, raised, staged, nextWrite, sentIn, cyc>>

authVars == <<bearer_token, authLog, authEnd>>
threadVars == <<thr, ti, execCount, fetchOutcome, errorLog, apiReturn>>
stagingVars == <<staged, nextWrite, sentIn>>

\* execute_api_calls has not returned; when it returns it returns None,
\* which carries no results (main.py:132, 164)
NotReturned == [returned |-> FALSE, results |-> <<>>]
ReturnedNone == [returned |-> TRUE, results |-> <<>>]

NoCycle == [serial |-> 0, entry |-> Empty, download |-> "none",
            forwarded |-> FALSE, reset |-> FALSE, wrote |-> FALSE,
            exit |-> "none"]

\* entity_manager.py:119-120 validate_and_create_required_entities not yet
\* called: empty missing_entities and created_entities
EmIdle == [pc |-> "idle", serials |-> <<>>, i |-> 0, missing |-> <<>>,
           created |-> <<>>, result |-> FALSE, log |-> <<>>]

Init ==
    /\ em = EmIdle
    /\ run = 0
    /\ pc = "idle"
    /\ bearer_token = ""
    /\ authLog = <<>>
    /\ authEnd = "none"
    /\ idx = 0
    /\ settings_file \in BOOLEAN
    /\ connOf = [s \in Serials |-> "none"]
    /\ thr = [a \in api_calls |-> "unstarted"]
    /\ ti = 0
    /\ execCount = [a \in api_calls |-> 0]
    /\ fetchOutcome = [a \in api_calls |-> "none"]
    /\ errorLog = {}
    /\ apiReturn = NotReturned
    /\ stepsRun = {}
    /\ raised = "none"
    /\ staged = [s \in Serials |-> Empty]
    /\ nextWrite = 1
    /\ sentIn = [w \in WriteIds |-> {}]
    /\ cyc = NoCycle


(* ---------------- helpers ---------------- *)
\* the serial the for loop of main.py:82 is at
serial_item == inverter_serials[idx]

\* fresh locals of execute_api_calls (main.py:152); a thread that is still
\* running is not ended by its Thread object going out of scope
NoThreads ==
    /\ thr' = [a \in api_calls |->
                  IF thr[a] = "running" THEN "running" ELSE "unstarted"]
    /\ ti' = 0
    /\ execCount' = [a \in api_calls |-> 0]
    /\ fetchOutcome' = [a \in api_calls |-> "none"]
    /\ errorLog' = {}
    /\ apiReturn' = NotReturned

\* variant of TokenPresent: the test `if bearer_token is not None:`, which
\* the empty string passes
TokenPresent_NotNone(tok) == tok \in Tokens \cup {""}

\* main.py:81 `if bearer_token:`
TokenPresent(tok) == tok # ""

\* variant of ConnectionOk: the test `if connection_result:`, which every
\* non-empty message passes
ConnectionOk_Truthy(result) == result # ""

\* main.py:117 `if connection_result == "Connection Success":`
ConnectionOk(result) == result = "Connection Success"

\* variant of JoinReturns: a join that does not wait (join(timeout=0)), it
\* returns for a started thread whether or not it has finished
JoinReturns_NoWait(state) == state \in {"running", "done"}

\* main.py:161-162 thread.join() returns once the thread has finished
JoinReturns(state) == state = "done"

\* main.py:46-49 `try ... except Exception` of fetch_data: is the outcome of
\* api_function kept inside fetch_data.  Every Exception is caught; a
\* BaseException that is not an Exception is not
FetchCatches(outcome) == outcome # "exit"

\* main.py:50 logging.error(f"Error fetching {description}: {e}"): the
\* f-string calls str(e); when that raises, the new exception leaves the
\* handler and fetch_data before anything is logged
HandlerRaises(outcome) == outcome = "raise_unprintable"

\* how an operation is recorded to have ended: by its outcome when that
\* stayed inside fetch_data, marked as escaped when an exception left
\* fetch_data
EndedAs(outcome) ==
    IF FetchCatches(outcome) /\ ~HandlerRaises(outcome)
    THEN outcome
    ELSE outcome \o "_escaped"

\* main.py:49-50 `except Exception` of fetch_data: is the outcome logged as
\* an error (an Exception whose message can be formatted)
FetchLogged(outcome) == outcome = "raise"

\* gettoken.py:127-139 is the login POST sent: not when building the url or
\* the payload raised KeyError
LoginRequestSent(status) == status # "config_error"

\* main.py:24, 100 json_settings is loaded once per run: a missing
\* Refresh_rate ends the run at the first inverter, so a later inverter is
\* reached only with the key there
RefreshRateRaises(outcome, i) == outcome = "key_error" /\ i = 1

\* variant of authenticate: the msg field is not checked, the token of the
\* body is returned whenever there is one
authenticate_NoMsgCheck(resp) ==
    IF resp.token = "missing"
    THEN [raised |-> TRUE, value |-> ""]
    ELSE [raised |-> FALSE, value |-> resp.token]

\* gettoken.py:146-153 _authenticate on a parsed body: the returned token,
\* or a KeyError (msg absent in the else branch, access_token absent)
authenticate(resp) ==
    IF resp.msg = "Success"
    THEN IF resp.token = "missing"
         THEN [raised |-> TRUE, value |-> ""]
         ELSE [raised |-> FALSE, value |-> resp.token]
    ELSE IF resp.msg = "missing"
         THEN [raised |-> TRUE, value |-> ""]
         ELSE [raised |-> FALSE, value |-> ""]

\* gettoken.py:22,37-50 every exception of the try block is caught and the
\* initial bearer_token is returned
gettoken_on_exception == ""

\* variant of NextAfterKey: the failure of the key fetch is handled on its
\* own and gettoken goes on with the next step
NextAfterKey_Continue(outcome) == "gettoken_encrypt"

\* gettoken.py:26-32 the steps share one try block: an exception of
\* _get_public_key skips the rest and gettoken returns
NextAfterKey(outcome) ==
    IF outcome = "ok" THEN "gettoken_encrypt" ELSE "main_token"

\* gettoken.py:31-35 an exception of _encrypt_password skips the login
NextAfterEncrypt(outcome) ==
    IF outcome = "ok" THEN "gettoken_login" ELSE "main_token"

\* variant of NextAfterLogin: a failed login request is tried again
NextAfterLogin_Retry(status) ==
    IF status = "ok" THEN "main_token" ELSE "gettoken_login"

\* gettoken.py:35-50 whatever the login request gave, gettoken returns
NextAfterLogin(status) == "main_token"

\* variant of TokenArg: the callee is handed an empty token instead of the
\* one main() holds
TokenArg_Empty(tok) == ""

\* main.py:83, 119-120, 156, 176-177 bearer_token is passed on unchanged from
\* main to process_inverter and on to every telemetry and settings call
TokenArg(tok) == tok

\* variant of CacheAfterClean: the file is looked for but not removed
CacheAfterClean_NoRemove(exists) == exists

\* main.py:106-109 `if os.path.exists(settings_file): os.remove(...)`: does
\* settings.json exist afterwards
CacheAfterClean(exists) == IF exists THEN FALSE ELSE exists

\* variant of AfterConnectionOk: the call of execute_api_calls is left out
\* and the settings cycle starts right after the connection test
AfterConnectionOk_SettingsFirst == "sync_download"

\* main.py:118-120 the success branch of process_inverter calls
\* execute_api_calls first, and execute_settings_management after it returned
AfterConnectionOk == "api_start"

\* main.py:82-85 the for loop moves to the next serial, or main() completes
NextInverter ==
    IF idx < NumDevices
    THEN /\ idx' = idx + 1
         /\ pc' = "clean_cache"
    ELSE /\ idx' = idx
         /\ pc' = "done"

\* an exception that nothing catches ends main() with a traceback
Uncaught(step) ==
    /\ raised' = step
    /\ pc' = "crashed"

(* ---------------- the scheduler and the user ---------------- *)
\* main.py:184-185 the external scheduler invokes main()
StartRun ==
    /\ pc \in {"idle", "done", "crashed"}
    /\ UNCHANGED em
    /\ run < MaxRuns
    /\ run' = run + 1
    /\ pc' = "gettoken_load"
    /\ bearer_token' = ""
    /\ authLog' = <<>>
    /\ authEnd' = "none"
    /\ idx' = 0
    /\ connOf' = [s \in Serials |-> "none"]
    /\ NoThreads
    /\ stepsRun' = {}
    /\ raised' = "none"
    /\ cyc' = NoCycle
    /\ UNCHANGED <<settings_file, staged, nextWrite, sentIn>>

\* the user enters a value into the staging entity of serial s
UserWrite(s) ==
    /\ nextWrite <= MaxWrites
    /\ UNCHANGED em
    /\ staged' = [staged EXCEPT ![s] = nextWrite]
    /\ nextWrite' = nextWrite + 1
    /\ cyc' = IF cyc.serial = s
              THEN [cyc EXCEPT !.wrote = TRUE]
              ELSE cyc
    /\ UNCHANGED <<run, pc, bearer_token, authLog, authEnd, idx, settings_file,
                   connOf, threadVars, stepsRun, raised, sentIn>>

(* ---------------- gettoken.py ---------------- *)
\* gettoken.py:22-24 bearer_token = "" and load_settings(), before the try
\* block: its SystemExit is caught neither by gettoken nor by the
\* `except Exception` of main.py:74 and ends main() with no request sent
LoadSettings ==
    /\ pc = "gettoken_load"
    /\ UNCHANGED em
    /\ \E o \in LoadOutcomes :
         IF o = "ok"
         THEN /\ pc' = "gettoken_key"
              /\ UNCHANGED <<authEnd, raised>>
         ELSE /\ authEnd' = "load_" \o o
              /\ Uncaught("load_settings")
    /\ UNCHANGED <<run, bearer_token, authLog, idx, settings_file, connOf,
                   threadVars, stepsRun, stagingVars, cyc>>

\* gettoken.py:28 _get_public_key()
GetPublicKey ==
    /\ pc = "gettoken_key"
    /\ UNCHANGED em
    /\ \E o \in KeyOutcomes :
         /\ authLog' = Append(authLog, <<"public_key_request", o>>)
         /\ pc' = NextAfterKey(o)
         /\ IF o = "ok"
            THEN UNCHANGED <<bearer_token, authEnd>>
            ELSE /\ bearer_token' = gettoken_on_exception
                 /\ authEnd' = "key_" \o o
    /\ UNCHANGED <<run, idx, settings_file, connOf, threadVars, stepsRun,
                   raised, stagingVars, cyc>>

\* gettoken.py:31-32 _encrypt_password()
EncryptPassword ==
    /\ pc = "gettoken_encrypt"
    /\ UNCHANGED em
    /\ \E o \in EncryptOutcomes :
         /\ authLog' = Append(authLog, <<"encrypt", o>>)
         /\ pc' = NextAfterEncrypt(o)
         /\ IF o = "ok"
            THEN UNCHANGED <<bearer_token, authEnd>>
            ELSE /\ bearer_token' = gettoken_on_exception
                 /\ authEnd' = o
    /\ UNCHANGED <<run, idx, settings_file, connOf, threadVars, stepsRun,
                   raised, stagingVars, cyc>>

\* gettoken.py:35 _authenticate(), and the return of gettoken to main
Authenticate ==
    /\ pc = "gettoken_login"
    /\ UNCHANGED em
    /\ \E r \in LoginResponses :
         /\ authLog' = IF LoginRequestSent(r.status)
                       THEN Append(authLog, <<"login_request", r.status>>)
                       ELSE authLog
         /\ pc' = NextAfterLogin(r.status)
         /\ IF r.status # "ok"
            THEN /\ bearer_token' = gettoken_on_exception
                 /\ authEnd' = "login_" \o r.status
            ELSE /\ bearer_token' = IF authenticate(r).raised
                                    THEN gettoken_on_exception
                                    ELSE authenticate(r).value
                 /\ authEnd' = IF r.msg # "Success" THEN "login_rejected"
                               ELSE IF r.token = "missing" THEN "login_no_token"
                               ELSE "ok"
    /\ UNCHANGED <<run, idx, settings_file, connOf, threadVars, stepsRun,
                   raised, stagingVars, cyc>>

(* ---------------- main.py ---------------- *)
\* main.py:71-85 after gettoken returned
MainAfterToken ==
    /\ pc = "main_token"
    /\ UNCHANGED em
    /\ IF TokenPresent(bearer_token)
       THEN /\ idx' = 1
            /\ pc' = "clean_cache"
       ELSE /\ idx' = idx
            /\ pc' = "done"
    /\ UNCHANGED <<run, authVars, settings_file, connOf, threadVars, stepsRun,
                   raised, stagingVars, cyc>>

\* main.py:98-109 process_inverter: read the refresh rate, then remove
\* settings.json.  os.remove is called only for an existing file; neither
\* the KeyError nor the OSError is caught by anything
CleanCache ==
    /\ pc = "clean_cache"
    /\ UNCHANGED em
    /\ \E c \in RefreshRateOutcomes, o \in RemoveOutcomes :
         IF RefreshRateRaises(c, idx)
         THEN /\ Uncaught("refresh_rate")
              /\ settings_file' = settings_file
         ELSE IF settings_file /\ o = "raise"
         THEN /\ Uncaught("clean")
              /\ settings_file' = settings_file
         ELSE /\ settings_file' = CacheAfterClean(settings_file)
              /\ pc' = "conn_test"
              /\ raised' = raised
    /\ UNCHANGED <<run, authVars, idx, connOf, threadVars, stepsRun,
                   stagingVars, cyc>>

\* main.py:111-129 process_inverter: the connection test and the branch
ConnectionTest ==
    /\ pc = "conn_test"
    /\ UNCHANGED em
    /\ stepsRun' = stepsRun \cup {<<"conn", serial_item, "", 0>>}
    /\ \E o \in ConnectionOutcomes :
         IF o = "raise"
         THEN /\ Uncaught("conn")
              /\ UNCHANGED <<idx, connOf, threadVars>>
         ELSE /\ connOf' = [connOf EXCEPT ![serial_item] = o]
              /\ raised' = raised
              /\ IF ConnectionOk(o)
                 THEN /\ pc' = AfterConnectionOk
                      /\ idx' = idx
                      /\ thr' = [a \in api_calls |-> "unstarted"]
                      /\ ti' = 1
                      /\ execCount' = [a \in api_calls |-> 0]
                      /\ fetchOutcome' = [a \in api_calls |-> "none"]
                      /\ errorLog' = {}
                      /\ apiReturn' = NotReturned
                 ELSE /\ NextInverter
                      /\ UNCHANGED threadVars
    /\ cyc' = NoCycle
    /\ UNCHANGED <<run, authVars, settings_file, stagingVars>>

\* main.py:153-159 execute_api_calls: create and start the next thread
StartThread ==
    /\ pc = "api_start"
    /\ UNCHANGED em
    /\ thr' = [thr EXCEPT ![ti] = "running"]
    /\ IF ti < NumApiCalls
       THEN /\ ti' = ti + 1
            /\ pc' = pc
       ELSE /\ ti' = 1
            /\ pc' = "api_join"
    /\ UNCHANGED <<run, authVars, idx, settings_file, connOf, execCount,
                   fetchOutcome, errorLog, apiReturn, stepsRun, raised,
                   stagingVars, cyc>>

\* main.py:47-48 fetch_data in the thread of api call a: api_function is
\* invoked and waits for its request
FetchInvoke(a) ==
    /\ thr[a] = "running"
    /\ UNCHANGED em
    /\ execCount[a] = 0
    /\ fetchOutcome[a] = "none"
    /\ execCount' = [execCount EXCEPT ![a] = @ + 1]
    /\ stepsRun' = stepsRun \cup {<<"fetch", serial_item, TokenArg(bearer_token), a>>}
    /\ UNCHANGED <<run, pc, authVars, idx, settings_file, connOf, thr, ti,
                   fetchOutcome, errorLog, apiReturn, raised, stagingVars, cyc>>

\* main.py:48-50 api_function returns or raises.  A return ends fetch_data
\* and the thread; an exception the handler catches is logged, the thread
\* still alive; an exception it does not catch leaves fetch_data and ends
\* that thread alone (threading.excepthook)
FetchHandle(a) ==
    /\ thr[a] = "running"
    /\ UNCHANGED em
    /\ execCount[a] > 0
    /\ fetchOutcome[a] = "none"
    /\ \E o \in FetchOutcomes :
         /\ fetchOutcome' = [fetchOutcome EXCEPT ![a] = EndedAs(o)]
         /\ errorLog' = IF FetchCatches(o) /\ FetchLogged(o)
                        THEN errorLog \cup {a}
                        ELSE errorLog
         /\ thr' = [thr EXCEPT ![a] =
                        IF FetchCatches(o) /\ ~HandlerRaises(o) /\ o # "ok"
                        THEN "running"
                        ELSE "done"]
    /\ UNCHANGED <<run, pc, authVars, idx, settings_file, connOf, ti,
                   execCount, apiReturn, stepsRun, raised, stagingVars, cyc>>

\* main.py:51-52 the handler has printed the error and the traceback:
\* fetch_data returns and the thread ends
FetchEnd(a) ==
    /\ thr[a] = "running"
    /\ UNCHANGED em
    /\ fetchOutcome[a] # "none"
    /\ thr' = [thr EXCEPT ![a] = "done"]
    /\ UNCHANGED <<run, pc, authVars, idx, settings_file, connOf, ti,
                   execCount, fetchOutcome, errorLog, apiReturn, stepsRun,
                   raised, stagingVars, cyc>>

\* main.py:31-52 the steps of fetch_data in the thread of api call a
FetchData(a) ==
    \/ FetchInvoke(a)
    \/ FetchHandle(a)
    \/ FetchEnd(a)

\* main.py:161-162 execute_api_calls: join the next thread
JoinThread ==
    /\ pc = "api_join"
    /\ UNCHANGED em
    /\ JoinReturns(thr[ti])
    /\ IF ti < NumApiCalls
       THEN /\ ti' = ti + 1
            /\ pc' = pc
       ELSE /\ ti' = 0
            /\ pc' = "api_return"
    /\ UNCHANGED <<run, authVars, idx, settings_file, connOf, thr, execCount,
                   fetchOutcome, errorLog, apiReturn, stepsRun, raised,
                   stagingVars, cyc>>

\* main.py:164 execute_api_calls returns (None); main.py:120 the settings
\* cycle is entered
ApiReturn ==
    /\ pc = "api_return"
    /\ UNCHANGED em
    /\ apiReturn' = ReturnedNone
    /\ cyc' = [NoCycle EXCEPT !.serial = serial_item,
                              !.entry = staged[serial_item]]
    /\ pc' = "sync_download"
    /\ UNCHANGED <<run, authVars, idx, settings_file, connOf, thr, ti,
                   execCount, fetchOutcome, errorLog, stepsRun, raised,
                   stagingVars>>

\* main.py:176 settingsmanager.DownloadProviderSettings; its result is not
\* inspected.  The locals of execute_api_calls, which has returned, are
\* no longer there.
DownloadProviderSettings ==
    /\ pc = "sync_download"
    /\ UNCHANGED em
    /\ stepsRun' = stepsRun \cup {<<"sync", serial_item, TokenArg(bearer_token), 0>>}
    /\ \E o \in DownloadOutcomes :
         /\ settings_file' = IF o = "ok" THEN TRUE ELSE settings_file
         /\ IF o = "raise"
            THEN /\ Uncaught("download")
                 /\ cyc' = [cyc EXCEPT !.download = o, !.exit = "raised"]
            ELSE /\ pc' = "sync_forward"
                 /\ raised' = raised
                 /\ cyc' = [cyc EXCEPT !.download = o]
    /\ NoThreads
    /\ UNCHANGED <<run, authVars, idx, connOf, stagingVars>>

\* main.py:177 settingsmanager.GetNewSettingsFromHAEntity: read the staging
\* entity and forward a non-empty value to the provider as an update
GetNewSettingsFromHAEntity ==
    /\ pc = "sync_forward"
    /\ UNCHANGED em
    /\ \E o \in ForwardOutcomes :
         LET v == staged[serial_item]
             sends == o \notin {"read_fail", "read_raise"} /\ v # Empty
         IN /\ o \in {"update_fail", "update_raise"} => v # Empty
            /\ sentIn' = IF sends
                         THEN [sentIn EXCEPT ![v] = @ \cup {run}]
                         ELSE sentIn
            /\ IF o \in {"read_raise", "update_raise"}
               THEN /\ Uncaught("forward")
                    /\ cyc' = [cyc EXCEPT !.forwarded = sends,
                                          !.exit = "raised"]
               ELSE /\ pc' = "sync_reset"
                    /\ raised' = raised
                    /\ cyc' = [cyc EXCEPT !.forwarded = sends]
    /\ UNCHANGED <<run, authVars, idx, settings_file, connOf, threadVars,
                   stepsRun, staged, nextWrite>>

\* main.py:179-181 settingsmanager.ResetSettingsEntity, then the end of
\* process_inverter (main.py:126-129)
ResetSettingsEntity ==
    /\ pc = "sync_reset"
    /\ UNCHANGED em
    /\ \E o \in ResetOutcomes :
         IF o = "raise"
         THEN /\ Uncaught("reset")
              /\ cyc' = [cyc EXCEPT !.reset = TRUE, !.exit = "raised"]
              /\ UNCHANGED <<idx, staged>>
         ELSE /\ staged' = [staged EXCEPT ![serial_item] = Empty]
              /\ cyc' = [cyc EXCEPT !.reset = TRUE, !.exit = "returned"]
              /\ raised' = raised
              /\ NextInverter
    /\ NoThreads
    /\ UNCHANGED <<run, authVars, settings_file, connOf, stepsRun, nextWrite,
                   sentIn>>

Next ==
    \/ StartRun
    \/ \E s \in Serials : UserWrite(s)
    \/ LoadSettings
    \/ GetPublicKey
    \/ EncryptPassword
    \/ Authenticate
    \/ MainAfterToken
    \/ CleanCache
    \/ ConnectionTest
    \/ StartThread
    \/ \E a \in api_calls : FetchInvoke(a)
    \/ \E a \in api_calls : FetchHandle(a)
    \/ \E a \in api_calls : FetchEnd(a)
    \/ JoinThread
    \/ ApiReturn
    \/ DownloadProviderSettings
    \/ GetNewSettingsFromHAEntity
    \/ ResetSettingsEntity

Spec == Init /\ [][Next]_vars


(* ---------------- properties ---------------- *)
\* step was invoked for serial s in this run
Invoked(step, s) == \E e \in stepsRun : e[1] = step /\ e[2] = s

\* every registered telemetry operation ran for serial s in this run
FetchedAll(s) ==
    \A a \in api_calls :
        \E e \in stepsRun : e[1] = "fetch" /\ e[2] = s /\ e[4] = a

\* api calls whose api_function raised in the current execute_api_calls
FailedCalls == {a \in api_calls : fetchOutcome[a] \notin {"none", "ok"}}

\* the ways token acquisition fails in the try block of gettoken, before
\* or at the login request
AcquisitionFailures ==
    {"key_timeout", "key_connection_error", "key_http_status", "key_malformed",
     "encrypt_error", "login_timeout", "login_connection_error",
     "login_http_status", "login_bad_json", "login_config_error"}

\* C1: a value the user wrote once is forwarded to the provider in at most
\* one run of main().
C1_AtMostOnceAcrossRuns ==
    \A w \in WriteIds : Cardinality(sentIn[w]) <= 1

\* C2: a settings cycle that forwarded a non-empty staged value has, on
\* every exit path (return or exception), performed the reset and left the
\* staging entity empty.
C2_ResetOnEveryExit ==
    (cyc.exit # "none" /\ cyc.forwarded /\ ~cyc.wrote)
        => (cyc.reset /\ staged[cyc.serial] = Empty)

\* C3: a settings cycle whose download step failed still performs the
\* reset, forwards no update, and does not end the run.
C3_DownloadFailureStillResets ==
    (cyc.exit # "none" /\ cyc.download \in {"fail", "raise"})
        => (cyc.reset /\ ~cyc.forwarded /\ pc # "crashed")

\* C4: a settings cycle entered with an empty staging entity forwards no
\* update, still performs the reset, and leaves the entity empty.
C4_EmptyStagedStillResets ==
    (cyc.exit # "none" /\ cyc.entry = Empty /\ ~cyc.wrote)
        => (~cyc.forwarded /\ cyc.reset /\ staged[cyc.serial] = Empty)

\* C5: when the login response has msg # "Success", gettoken returns the
\* empty token and no connection test, telemetry operation or settings step
\* is invoked in that run.
C5_RejectedLoginStopsRun ==
    authEnd = "login_rejected"
        => (bearer_token = "" /\ stepsRun = {} /\ raised = "none")

C5_Witness ==
    authEnd = "login_rejected" /\ pc = "done"

\* C6 as stated: when any step of token acquisition fails, the loading of
\* the settings at its start included, gettoken returns the empty token
\* without raising and the run ends without processing any inverter.
C6_AnyFailureReturnsEmpty ==
    authEnd \in AcquisitionFailures \cup {"load_exit"}
        => /\ bearer_token = ""
           /\ raised = "none"
           /\ stepsRun = {}
           /\ idx = 0
           /\ pc \in {"main_token", "done"}

\* C6 as amended: when a step of the try block of gettoken fails (key
\* fetch, encryption, building or sending the login request, timeout, JSON
\* parse), gettoken returns the empty token without raising; when loading
\* the settings at its start fails, gettoken raises SystemExit, which ends
\* main() before any request is sent.  In both cases the run ends without
\* processing any inverter.
C6_FailedAcquisitionStopsRun ==
    /\ authEnd \in AcquisitionFailures
         => /\ bearer_token = ""
            /\ raised = "none"
            /\ stepsRun = {}
            /\ idx = 0
            /\ pc \in {"main_token", "done"}
    /\ authEnd = "load_exit"
         => /\ raised = "load_settings"
            /\ pc = "crashed"
            /\ authLog = <<>>
            /\ stepsRun = {}
            /\ idx = 0
    /\ raised = "load_settings" => authEnd = "load_exit"

C6_Witness ==
    authEnd \in AcquisitionFailures /\ pc = "done"

\* C7: no exception of a telemetry fetch, connection test or settings step
\* terminates main(): the run never ends with an uncaught exception of
\* one of these steps.
C7_NoStepExceptionEndsRun ==
    ~(raised \in {"fetch", "conn", "download", "forward", "reset"}
        /\ pc = "crashed")

\* C8: with a token, an inverter runs the telemetry operations and the
\* settings cycle exactly when its connection test returned "Connection
\* Success"; after a failed test neither runs and the loop goes on to the
\* next inverter or completes.
C8_ConnectivityGatesInverter ==
    \A i \in 1..NumDevices :
        LET s == inverter_serials[i]
            past == \/ idx > i
                    \/ idx = i /\ pc \in {"sync_forward", "sync_reset",
                                          "done", "crashed"}
        IN /\ (Invoked("fetch", s) \/ Invoked("sync", s))
                => connOf[s] = "Connection Success"
           /\ (connOf[s] = "Connection Success" /\ past)
                => (FetchedAll(s) /\ Invoked("sync", s))
           /\ connOf[s] = "Connection Failed"
                => /\ ~Invoked("fetch", s)
                   /\ ~Invoked("sync", s)
                   /\ (idx > i \/ pc = "done")

C8_Witness ==
    /\ pc = "done"
    /\ connOf[inverter_serials[1]] = "Connection Success"
    /\ connOf[inverter_serials[2]] = "Connection Failed"
    /\ FetchedAll(inverter_serials[1])
    /\ Invoked("sync", inverter_serials[1])
    /\ ~Invoked("fetch", inverter_serials[2])

\* C9: execute_api_calls has started every registered operation and every
\* one of its threads has finished when it returns; no thread is running
\* once it has returned.
C9_FullJoin ==
    (pc = "api_return" \/ apiReturn.returned)
        => \A a \in api_calls : thr[a] = "done"

C9_Witness ==
    /\ apiReturn.returned
    /\ errorLog # {}
    /\ \A a \in api_calls : thr[a] = "done"

\* C10: with exactly one failing operation, execute_api_calls
\* returns N results, N-1 successful and one failed, each operation having
\* run once.
C10_ReturnsNResults ==
    (apiReturn.returned /\ Cardinality(FailedCalls) = 1)
        => /\ Len(apiReturn.results) = NumApiCalls
           /\ Cardinality({k \in DOMAIN apiReturn.results :
                               apiReturn.results[k] = "failed"}) = 1
           /\ \A a \in api_calls : execCount[a] = 1


\* C11: an exception of one telemetry operation is caught in fetch_data of
\* its own thread: it never leaves the thread, never reaches the main
\* thread, and never keeps a sibling from starting or from running to its
\* end, whatever the interleaving.
C11_FaultIsolation ==
    /\ \A a \in api_calls :
         fetchOutcome[a] \notin {"raise_escaped", "raise_unprintable_escaped",
                                 "exit_escaped"}
    /\ raised \notin {"fetch", "api_calls"}
    /\ \A a \in api_calls : thr[a] = "running" => ENABLED FetchData(a)
    /\ (pc = "api_start" /\ FailedCalls # {}) => ENABLED StartThread
    /\ apiReturn.returned
         => \A a \in api_calls : execCount[a] = 1 /\ thr[a] = "done"


\* C12: per inverter the steps run in the order connection test, telemetry
\* fan-out, settings cycle: no settings step runs while a telemetry thread
\* is running or before every telemetry operation has run, and no thread
\* is started before the connection test has returned.
C12_StepOrder ==
    /\ pc \in {"sync_download", "sync_forward", "sync_reset"}
         => \A a \in api_calls : thr[a] # "running"
    /\ \A s \in Serials :
         /\ Invoked("sync", s) => FetchedAll(s)
         /\ Invoked("fetch", s) => (Invoked("conn", s) /\ connOf[s] # "none")
    /\ pc \in {"clean_cache", "conn_test"}
         => \A a \in api_calls : thr[a] = "unstarted"

C12_Witness ==
    /\ pc = "sync_reset"
    /\ cyc.forwarded
    /\ FetchedAll(serial_item)
    /\ cyc.download = "ok"


\* the steps of the main thread of one run
MainStep ==
    \/ LoadSettings
    \/ GetPublicKey
    \/ EncryptPassword
    \/ Authenticate
    \/ MainAfterToken
    \/ CleanCache
    \/ ConnectionTest
    \/ StartThread
    \/ JoinThread
    \/ ApiReturn
    \/ DownloadProviderSettings
    \/ GetNewSettingsFromHAEntity
    \/ ResetSettingsEntity

\* every call returns or raises, and every thread is scheduled
FairSpec ==
    /\ Spec
    /\ WF_vars(MainStep)
    /\ \A a \in api_calls : WF_vars(FetchData(a))

\* every run of main() ends: it completes or an uncaught exception ends it
RunEnds ==
    \A r \in 1..MaxRuns :
        (run = r /\ pc = "gettoken_load") ~> (run = r /\ pc \in {"done", "crashed"})

\* C13: a run that has ended has reached DONE, after every inverter of the
\* list was processed or after the abort at token acquisition.
C13_RunEndsInDone ==
    pc \in {"done", "crashed"}
        => /\ pc = "done"
           /\ \/ ~TokenPresent(bearer_token)
              \/ \A s \in Serials : Invoked("conn", s)


\* the order of the steps of gettoken
TokenSteps == <<"public_key_request", "encrypt", "login_request">>

\* how often a request of the given kind was issued in this run
Requests(kind) == Cardinality({k \in DOMAIN authLog : authLog[k][1] = kind})

\* C14: gettoken performs public-key fetch, encryption and login request in
\* this order, and the login request is issued only after the key fetch
\* and the encryption both succeeded.
C14_TokenStepOrder ==
    /\ Len(authLog) <= Len(TokenSteps)
    /\ \A k \in DOMAIN authLog :
         /\ k <= Len(TokenSteps) => authLog[k][1] = TokenSteps[k]
         /\ authLog[k][1] = "login_request"
              => \A j \in 1..(k - 1) : authLog[j][2] = "ok"

C14_Witness ==
    /\ Len(authLog) = 3
    /\ authLog[1] = <<"public_key_request", "ok">>
    /\ authLog[2] = <<"encrypt", "ok">>
    /\ authLog[3][1] = "login_request"
    /\ pc = "main_token"

\* C15: within one run the public-key endpoint and the login endpoint are
\* each requested at most once, whatever the outcome of the request.
C15_NoRetry ==
    /\ Requests("public_key_request") <= 1
    /\ Requests("login_request") <= 1

C15_Witness ==
    /\ pc = "done"
    /\ authEnd = "login_timeout"
    /\ Requests("public_key_request") = 1
    /\ Requests("login_request") = 1


\* C16: inverters are processed one after the other in list order: while
\* the loop is at position idx nothing has been invoked for a later
\* inverter, every earlier inverter has been processed to its end (its
\* threads finished, its settings cycle left), and the processing of an
\* inverter begins with no thread of the previous one running.
C16_SerialInverters ==
    /\ \A i \in 1..NumDevices :
         LET s == inverter_serials[i]
         IN /\ i > idx => \A e \in stepsRun : e[2] # s
            /\ i < idx
                 => /\ Invoked("conn", s)
                    /\ connOf[s] # "none"
                    /\ connOf[s] = "Connection Success"
                         => (FetchedAll(s) /\ Invoked("sync", s))
    /\ (pc = "clean_cache" /\ idx > 1
          /\ connOf[inverter_serials[idx - 1]] = "Connection Success")
         => /\ cyc.serial = inverter_serials[idx - 1]
            /\ cyc.exit = "returned"
            /\ cyc.reset
    /\ pc \in {"clean_cache", "conn_test"}
         => \A a \in api_calls : thr[a] # "running"
    /\ (cyc.serial # 0 /\ cyc.exit = "none") => cyc.serial = serial_item

C16_Witness ==
    /\ idx = 2
    /\ pc = "api_join"
    /\ \E a \in api_calls : thr[a] = "running"
    /\ FetchedAll(inverter_serials[1])
    /\ Invoked("sync", inverter_serials[1])


\* C17: the token is acquired by one login request per run and not changed
\* afterwards: every telemetry operation and every settings call of the run
\* was handed the token gettoken returned.
C17_OneTokenPerRun ==
    /\ \A e \in stepsRun :
         e[1] \in {"fetch", "sync"}
            => (e[3] = bearer_token /\ TokenPresent(e[3]))
    /\ stepsRun # {}
         => (authEnd = "ok" /\ Requests("login_request") = 1)

C17_Witness ==
    /\ pc = "done"
    /\ \A s \in Serials :
         /\ FetchedAll(s)
         /\ \E e \in stepsRun : e[1] = "sync" /\ e[2] = s /\ e[3] = "tokA"


\* C18: when the connection test of an inverter is about to be performed,
\* settings.json does not exist, whatever an earlier inverter or an earlier
\* run left behind and whether or not the inverter is skipped afterwards.
C18_CacheCleanBeforeTest ==
    pc = "conn_test" => ~settings_file

C18_Witness ==
    /\ pc = "conn_test"
    /\ idx = 2
    /\ cyc.serial = inverter_serials[1]
    /\ cyc.download = "ok"
    /\ cyc.exit = "returned"
    /\ ~settings_file


\* ---------------------------------------------------------------------
\* entity_manager.py: validate_and_create_required_entities.  main.py does
\* not call it; it is modelled as a call of its own (SpecEntities).
\* ---------------------------------------------------------------------

\* the serial lists the function is called with: any order, repeats allowed
InputLists == UNION {[1..n -> Serials] : n \in 0..MaxListLen}

\* what GET /api/states/<entity> can do: a status code, a request that
\* never completes, or options.json that cannot be loaded
CheckOutcomes == {"200", "404", "500", "204", "timeout", "config_error"}

\* what a create POST can do: raise_for_status passes, a RequestException,
\* or (primary call only) options.json that cannot be loaded
PostOutcomes == {"ok", "request_error", "config_error"}

\* the exceptions check_entity_exists and create_input_text_helper do not
\* catch: load_ha_settings re-raises what is not a RequestException
EscapesEntityCall(outcome) == outcome = "config_error"

settings_entity(serial) == <<"input_text.solarsynkv3", serial, "settings">>

check_entity_exists_Not404(status) == status # "404"

\* 200 -> True; 404 -> False; another status: raise_for_status raises for
\* 4xx/5xx (caught, False) and falls through to return False otherwise;
\* RequestException -> False
check_entity_exists(status) == status = "200"

\* the primary POST, and the fallback POST only in the handler of the
\* primary's RequestException; ret is the value returned
create_input_text_helper(primary, fallback) ==
    IF primary = "ok"
    THEN [ret |-> TRUE, primary |-> primary, fallback |-> "none"]
    ELSE [ret |-> fallback = "ok", primary |-> primary, fallback |-> fallback]

\* failed_entities = [e for e in missing_entities if e not in created_entities]
failed_entities(missing, created) ==
    SelectSeq(missing, LAMBDA e : \A k \in DOMAIN created : created[k] # e)

\* the value returned after the loop
validate_result(missing, created) ==
    IF missing # <<>> /\ failed_entities(missing, created) # <<>>
    THEN FALSE
    ELSE TRUE

\* validate_and_create_required_entities(inverter_serials) is called
EmCall ==
    /\ em.pc = "idle"
    /\ \E l \in InputLists :
         em' = [EmIdle EXCEPT !.pc = "loop", !.serials = l, !.i = 1]
    /\ UNCHANGED mainVars

\* one pass of the for loop: the check and, if it reports the entity as
\* not existing, the create of the entity of em.serials[em.i]
EmIteration ==
    /\ em.pc = "loop"
    /\ em.i <= Len(em.serials)
    /\ \E status \in CheckOutcomes :
       \E p \in PostOutcomes :
       \E f \in PostOutcomes \ {"config_error"} :
         LET e  == settings_entity(em.serials[em.i])
             cr == create_input_text_helper(p, f)
         IN  IF EscapesEntityCall(status)
             THEN em' = [em EXCEPT !.pc = "raised"]
             ELSE IF check_entity_exists(status)
             THEN em' = [em EXCEPT
                           !.i = @ + 1,
                           !.log = Append(@, [entity |-> e, status |-> status,
                                              primary |-> "none",
                                              fallback |-> "none"])]
             ELSE IF EscapesEntityCall(p)
             THEN em' = [em EXCEPT
                           !.pc = "raised",
                           !.missing = Append(@, e),
                           !.log = Append(@, [entity |-> e, status |-> status,
                                              primary |-> p,
                                              fallback |-> "none"])]
             ELSE em' = [em EXCEPT
                           !.i = @ + 1,
                           !.missing = Append(@, e),
                           !.created = IF cr.ret THEN Append(@, e) ELSE @,
                           !.log = Append(@, [entity |-> e, status |-> status,
                                              primary |-> cr.primary,
                                              fallback |-> cr.fallback])]
    /\ UNCHANGED mainVars

\* the report after the loop and the return
EmReport ==
    /\ em.pc = "loop"
    /\ em.i > Len(em.serials)
    /\ em' = [em EXCEPT !.pc = "returned",
                        !.result = validate_result(em.missing, em.created)]
    /\ UNCHANGED mainVars

NextEntities ==
    \/ EmCall
    \/ EmIteration
    \/ EmReport

SpecEntities == Init /\ [][NextEntities]_vars

\* the HTTP exchanges of the call, read from the log of requests
ReportedExisting(k) == em.log[k].status = "200"
CreatedAt(k) == em.log[k].primary = "ok" \/ em.log[k].fallback = "ok"
SameEntity(j, k) == em.log[j].entity = em.log[k].entity

\* a create is issued exactly for the checks that did not report the entity
\* as existing, and the fallback only after the primary failed
CreateDiscipline ==
    \A k \in DOMAIN em.log :
       /\ em.log[k].primary # "none" <=> ~ReportedExisting(k)
       /\ em.log[k].fallback # "none" <=> em.log[k].primary = "request_error"

\* C19 as stated: the call returns True exactly when every serial of the
\* list has its entity reported existing or created during the call (at
\* any of the places the serial occupies in the list), and creates are
\* issued only for entities reported missing, the fallback only after a
\* failed primary.
C19_TrueIffEverySerialOk ==
    em.pc = "returned"
       => /\ em.result <=>
               \A k \in DOMAIN em.log :
                  \E j \in DOMAIN em.log :
                     SameEntity(j, k) /\ (ReportedExisting(j) \/ CreatedAt(j))
          /\ CreateDiscipline

\* C19 (amended): the call returns True exactly when every check that did
\* not report its entity as existing is matched by a successful create of
\* that entity somewhere in the call; an entity reported existing at one
\* place of the list does not cover a later check of it that fails.  The
\* log holds one entry per serial of the list, and the create discipline
\* holds at every point of the call.
C19_TrueIffEveryMissingCreated ==
    /\ CreateDiscipline
    /\ em.pc = "returned"
         => /\ Len(em.log) = Len(em.serials)
            /\ em.result <=>
                 \A k \in DOMAIN em.log :
                    \/ ReportedExisting(k)
                    \/ \E j \in DOMAIN em.log : SameEntity(j, k) /\ CreatedAt(j)

C19_Witness ==
    /\ em.pc = "returned"
    /\ em.result
    /\ Len(em.log) = 2
    /\ ~SameEntity(1, 2)
    /\ ReportedExisting(1)
    /\ em.log[2].status = "404"
    /\ em.log[2].primary = "request_error"
    /\ em.log[2].fallback = "ok"

====
